---- MODULE Spec2Model ----
(***************************************************************************)
(* Model of the housekeeping (garbage collection) endpoint of the registry *)
(* (registry/handlers/housekeeping.go) over the repository storage of      *)
(* registry/storage/registry.go: per-repository manifest links, layer      *)
(* links, tags, and the repository-scoped or global blob store.            *)
(***************************************************************************)
EXTENDS Naturals, Integers, Sequences, FiniteSets, TLC

\* ------------------------------------------------------------------ bounds
\* DELETE requests on the housekeeping endpoint that the model follows.
MaxRuns == 2
\* Client pushes (blob upload + manifest put + tag) the model follows.
MaxPushes == 1
\* Blob deletions that fail within one cycle.
MaxDropped == 1

\* ---------------------------------------------------------------- universe
Repos == {"r1", "r2"}
TagNames == {"latest", "stable"}
ManifestDigests == {"mA", "mB", "mL"}
BlobDigests == {"b1", "b2", "b3"}
Digests == ManifestDigests \cup BlobDigests
None == "none"
Nil == "nil"

\* manifest.References(): the descriptors the stored bytes of a manifest
\* name.  mA and mB are image manifests, mL is a manifest list whose entry
\* is the image manifest mB.  Content addressing fixes it per digest.
References(m) ==
    CASE m = "mA" -> {"b1", "b2"}
      [] m = "mB" -> {"b2", "b3"}
      [] m = "mL" -> {"mB"}
      [] OTHER -> {}

\* Everything a manifest names directly or through nested manifests.
RECURSIVE Closure(_, _)
Closure(ds, n) ==
    IF n = 0 THEN ds
    ELSE Closure(ds \cup UNION {References(d) : d \in ds}, n - 1)

TransitiveReferences(m) == Closure(References(m), Cardinality(ManifestDigests))

VARIABLES
    repositoryBlobStoreEnabled, \* registryOptions.repositoryBlobStoreEnabled
    readOnly,                   \* Context.readOnly
    manifestLinks,              \* repo -> digests with a manifest revision link
    layerLinks,                 \* repo -> digests with a blob (layer) link
    repoBlobs,                  \* repo -> digests stored in the repository scope
    globalBlobs,                \* digests stored in the global blob store
    tags,                       \* repo -> tag name -> current digest or None
    tagIndex,                   \* repo -> tag name -> digests in the tag's history
    pc,                         \* position of the housekeeping handler
    repo,                       \* bh.Repository of the running request
    markSet,                    \* runGCCycle's markSet
    manifestArr,                \* runGCCycle's manifestArr
    visited,                    \* manifests the mark enumeration has passed
    idx,                        \* position of the manifest sweep in manifestArr
    blobVisited,                \* blobs the sweep enumeration has passed
    err,                        \* the error runGCCycle returns (Nil: none)
    failedLookup,               \* the digest whose tag lookup failed, or None
    status,                     \* HTTP status written to the response
    body,                       \* HTTP body written to the response
    cycleStart,                 \* stored state when the running cycle began
    wrote,                      \* a push happened since the cycle began
    dropped,                    \* blob deletions that failed in this cycle
    runs,                       \* housekeeping requests so far
    pushes,                     \* pushes so far
    prior,                      \* how the cycle before the running one ended
    resolved                    \* the last link resolution and its outcome

config == <<repositoryBlobStoreEnabled, readOnly>>
stored == <<manifestLinks, layerLinks, repoBlobs, globalBlobs, tags, tagIndex>>
local == <<pc, repo, markSet, manifestArr, visited, idx, blobVisited, err,
           failedLookup>>
response == <<status, body>>
history == <<cycleStart, wrote, dropped, runs, pushes>>
vars == <<config, stored, local, response, history, prior, resolved>>

\* The stored state as one value.
Stored ==
    [manifestLinks |-> manifestLinks, layerLinks |-> layerLinks,
     repoBlobs |-> repoBlobs, globalBlobs |-> globalBlobs,
     tags |-> tags, tagIndex |-> tagIndex]

\* ------------------------------------------------------------ storage views
\* blobsService.IsScopped(): the repository blob enumerator works on the
\* repository's own scope only when repository blob storage is enabled.
IsScopped == repositoryBlobStoreEnabled

\* repository.scopedBlobStore(): the store a repository reads and writes,
\* its own scope when repository blob storage is enabled, else the global one.
scopedBlobStore(r) ==
    IF repositoryBlobStoreEnabled THEN repoBlobs[r] ELSE globalBlobs

\* Tags(ctx).Lookup(ctx, Descriptor{Digest: dgst}): tags now pointing at dgst.
TagsLookup(r, dgst) == {t \in TagNames : tags[r][t] = dgst}

\* Tags(ctx).All(ctx): every tag name of the repository.
TagsAll(r) == {t \in TagNames : tags[r][t] # None}

\* The link path functions a manifest digest is resolved with: the revision
\* link first, then the blob link earlier registries wrote for manifests.
manifestLinkPathFnsWithoutLegacy == <<"manifestRevisionLinkPath">>

manifestLinkPathFns == <<"manifestRevisionLinkPath", "blobLinkPath">>

\* The link path functions of the blob service of a repository.
blobsLinkPathFns == <<"blobLinkPath">>

ErrBlobUnknown == "ErrBlobUnknown"

\* Does repository r hold a link to d at the path that fn builds?
LinkAt(fn, r, d) ==
    IF fn = "manifestRevisionLinkPath" THEN d \in manifestLinks[r]
    ELSE d \in layerLinks[r]

\* Resolving d in r with a list of link path functions: the first function
\* whose path holds a link, or ErrBlobUnknown when none does.
RECURSIVE Stat(_, _, _)
Stat(fns, r, d) ==
    IF fns = << >> THEN ErrBlobUnknown
    ELSE IF LinkAt(Head(fns), r, d) THEN Head(fns)
    ELSE Stat(Tail(fns), r, d)

\* The repository holds a link to the digest.
Linked(r, d) ==
    IF d \in ManifestDigests THEN Stat(manifestLinkPathFns, r, d) # ErrBlobUnknown
    ELSE Stat(blobsLinkPathFns, r, d) # ErrBlobUnknown

\* No cycle ran before, and nothing was resolved yet.
NoPrior == [repo |-> None, err |-> None, dropped |-> 0]

NotResolved == [service |-> None, repo |-> None, digest |-> None, path |-> None]

Present(r, d) == d \in scopedBlobStore(r) /\ Linked(r, d)

\* ------------------------------------------------------------------- Init
\* A repository's manifest links: a manifest list is only accepted when its
\* entries are already in the repository.
LinkSets ==
    {S \in SUBSET ManifestDigests :
        \A m \in S : References(m) \cap ManifestDigests \subseteq S}

Needed(links) == links \cup UNION {References(m) : m \in links}

\* What a repository may hold at the start: its linked manifests, what its
\* tag points at, and blobs uploaded without any manifest naming them.
Contents ==
    {c \in [links : LinkSets, tags : [TagNames -> ManifestDigests \cup {None}],
            orphan : {{}, {"b3"}}] :
        \A t \in TagNames : c.tags[t] \in c.links \cup {None}}

\* Repository r2 starts from the contents of two pushes: manifest mA tagged
\* latest, and manifest mB left untagged.
StartContents(r) ==
    IF r = "r1" THEN Contents
    ELSE {[links |-> {"mA", "mB"},
           tags |-> [t \in TagNames |-> IF t = "latest" THEN "mA" ELSE None],
           orphan |-> {}]}

\* No request has been served yet.
InitHandler ==
    /\ pc = "idle"
    /\ repo = None
    /\ markSet = {}
    /\ manifestArr = << >>
    /\ visited = {}
    /\ idx = 1
    /\ blobVisited = {}
    /\ err = Nil
    /\ failedLookup = None
    /\ status = 0
    /\ body = ""
    /\ cycleStart = Stored
    /\ wrote = FALSE
    /\ dropped = 0
    /\ runs = 0
    /\ pushes = 0
    /\ prior = NoPrior
    /\ resolved = NotResolved

Init ==
    /\ repositoryBlobStoreEnabled \in BOOLEAN
    /\ readOnly \in BOOLEAN
    /\ \E c \in [Repos -> Contents] :
          /\ \A r \in Repos : c[r] \in StartContents(r)
          /\ manifestLinks = [r \in Repos |-> c[r].links]
          /\ tags = [r \in Repos |-> c[r].tags]
          /\ tagIndex = [r \in Repos |-> [t \in TagNames |->
                IF c[r].tags[t] = None THEN {} ELSE c[r].links]]
          /\ layerLinks = [r \in Repos |->
                (Needed(c[r].links) \cap BlobDigests) \cup c[r].orphan]
          /\ repoBlobs = [r \in Repos |->
                IF repositoryBlobStoreEnabled
                THEN Needed(c[r].links) \cup c[r].orphan ELSE {}]
          /\ globalBlobs =
                IF repositoryBlobStoreEnabled THEN {}
                ELSE UNION {Needed(c[r].links) \cup c[r].orphan : r \in Repos}
    /\ InitHandler

\* ------------------------------------------------------------ the response
StatusOK == 200
StatusInternalServerError == 500
StatusMethodNotAllowed == 405

\* Mutant of RecycleStatus: the success header is written whatever
\* runGCCycle returned.
RecycleStatusAlwaysOK(e) == StatusOK

\* housekeepingHandler.Recycle once runGCCycle has returned e: a server error
\* carrying the error text, or success with Content-Length 0.
RecycleStatus(e) == IF e # Nil THEN StatusInternalServerError ELSE StatusOK
RecycleBody(e) == IF e # Nil THEN e ELSE ""

\* runGCCycle returns e and Recycle writes the response.
Return(e) ==
    /\ pc' = "done"
    /\ err' = e
    /\ status' = RecycleStatus(e)
    /\ body' = RecycleBody(e)

\* ------------------------------------------------------------ the dispatcher
\* Mutant of DeleteRegistered: the DELETE entry is set without looking at
\* ctx.readOnly.
DeleteRegisteredAlways == TRUE

\* housekeepingDispatcher: the method handler has a DELETE entry only when
\* the registry is not read-only.
DeleteRegistered == ~readOnly

\* A DELETE request on a read-only registry finds no handler.
DispatchRefused(r) ==
    /\ pc \in {"idle", "done"}
    /\ runs < MaxRuns
    /\ ~DeleteRegistered
    /\ runs' = runs + 1
    /\ status' = StatusMethodNotAllowed
    /\ body' = ""
    /\ pc' = "idle"
    /\ repo' = r
    /\ UNCHANGED <<config, prior, resolved,
                   stored, markSet, manifestArr, visited, idx,
                   blobVisited, err, failedLookup, cycleStart, wrote, dropped,
                   pushes>>

\* A DELETE request reaches Recycle, which enters runGCCycle: the manifest
\* service is built and markSet and manifestArr start empty.
DispatchRecycle(r) ==
    /\ pc \in {"idle", "done"}
    /\ runs < MaxRuns
    /\ DeleteRegistered
    /\ runs' = runs + 1
    /\ repo' = r
    /\ pc' = "mark"
    /\ markSet' = {}
    /\ manifestArr' = << >>
    /\ visited' = {}
    /\ idx' = 1
    /\ blobVisited' = {}
    /\ err' = Nil
    /\ failedLookup' = None
    /\ status' = 0
    /\ body' = ""
    /\ cycleStart' = Stored
    /\ wrote' = FALSE
    /\ dropped' = 0
    /\ prior' = IF pc = "done"
                THEN [repo |-> repo, err |-> err, dropped |-> dropped]
                ELSE NoPrior
    /\ UNCHANGED <<config, resolved, stored, pushes>>

housekeepingDispatcher(r) == DispatchRefused(r) \/ DispatchRecycle(r)

\* ------------------------------------------------------------ the vacuum
\* RemoveManifest, first part: the per-tag index entries of dgst, for every
\* tag in the list handed over.
RemoveTagIndex(name, dgst, tgs) ==
    [tagIndex EXCEPT ![name] =
        [t \in TagNames |-> IF t \in tgs THEN @[t] \ {dgst} ELSE @[t]]]

\* RemoveManifest, second part: the manifest's revision link.
RemoveLink(name, dgst) == [manifestLinks EXCEPT ![name] = @ \ {dgst}]

\* After its link is gone, does a repository of the scope its bytes live in
\* still hold a link to the manifest?
StillReferenced(name, dgst) ==
    LET links == RemoveLink(name, dgst)
        scope == IF repositoryBlobStoreEnabled THEN {name} ELSE Repos
    IN \E r \in scope : dgst \in links[r]

\* RemoveManifest, third part: the manifest's bytes, when nothing else
\* references them.
RemoveManifestRepoBlobs(name, dgst) ==
    IF repositoryBlobStoreEnabled /\ ~StillReferenced(name, dgst)
    THEN [repoBlobs EXCEPT ![name] = @ \ {dgst}] ELSE repoBlobs

RemoveManifestGlobalBlobs(name, dgst) ==
    IF ~repositoryBlobStoreEnabled /\ ~StillReferenced(name, dgst)
    THEN globalBlobs \ {dgst} ELSE globalBlobs

\* vacuum.RemoveManifest(name, dgst, tags) succeeding.
RemoveManifest(name, dgst, tgs) ==
    /\ tagIndex' = RemoveTagIndex(name, dgst, tgs)
    /\ manifestLinks' = RemoveLink(name, dgst)
    /\ repoBlobs' = RemoveManifestRepoBlobs(name, dgst)
    /\ globalBlobs' = RemoveManifestGlobalBlobs(name, dgst)
    /\ UNCHANGED <<layerLinks, tags>>

\* vacuum.RemoveManifest failing: the driver fails at the first deletion, or
\* after the tag index entries and before the link.
RemoveManifestFails(name, dgst, tgs) ==
    \E stage \in {"first", "afterTags"} :
        /\ tagIndex' = IF stage = "first" THEN tagIndex
                       ELSE RemoveTagIndex(name, dgst, tgs)
        /\ UNCHANGED <<manifestLinks, layerLinks, tags, repoBlobs, globalBlobs>>

\* vacuum.RemoveRepositoryBlob(name, dgst) succeeding: the blob leaves the
\* repository's own scope.
RemoveRepositoryBlob(name, dgst) ==
    /\ repoBlobs' = [repoBlobs EXCEPT ![name] = @ \ {dgst}]
    /\ UNCHANGED <<manifestLinks, layerLinks, globalBlobs, tags, tagIndex>>

\* vacuum.RemoveRepositoryBlob failing: the driver deletes nothing.
RemoveRepositoryBlobFails(name, dgst) ==
    /\ dropped < MaxDropped
    /\ dropped' = dropped + 1
    /\ UNCHANGED stored

\* ------------------------------------------------------------ mark phase
\* The policy flag of markAllManifests.
removeUntagged == TRUE

\* The manifest enumeration hands the callback a linked manifest it has not
\* passed yet, in any order.
ToEnumerate == manifestLinks[repo] \ visited

\* ManifestDel{Name, Digest, Tags}.
ManifestDel(name, dgst, tgs) == [Name |-> name, Digest |-> dgst, Tags |-> tgs]

\* runGCCycle wraps the error markAllManifests returns and returns it before
\* the vacuum is built.
markFailed(e) ==
    /\ Return("failed to mark all manifests: " \o e)
    /\ UNCHANGED <<config, prior, resolved,
                   stored, repo, manifestArr, idx, blobVisited, history>>

\* The text of the error a failing storage driver call returns.
DriverError == "driver error"

\* The service is not a ManifestEnumerator.
markNotEnumerator ==
    /\ pc = "mark"
    /\ visited = {}
    /\ markFailed("unable to convert ManifestService into ManifestEnumerator")
    /\ UNCHANGED <<markSet, visited, failedLookup>>

\* Enumerate itself fails (the driver cannot list the revisions).
markEnumerateFailed ==
    /\ pc = "mark"
    /\ markFailed(DriverError)
    /\ UNCHANGED <<markSet, visited, failedLookup>>

\* Mutant of markLookupFailed: the lookup error is dropped and the empty tag
\* list it came with is taken as "no tags".
markLookupFailedTakenAsUntagged(dgst) ==
    /\ removeUntagged
    /\ failedLookup' = dgst
    /\ manifestArr' = Append(manifestArr, ManifestDel(repo, dgst, TagsAll(repo)))
    /\ visited' = visited \cup {dgst}
    /\ UNCHANGED <<config, prior, resolved,
                   stored, pc, repo, markSet, idx, blobVisited, err,
                   response, history>>

\* The callback: the tag lookup fails.
markLookupFailed(dgst) ==
    /\ removeUntagged
    /\ markFailed("failed to retrieve tags for digest " \o dgst \o ": " \o DriverError)
    /\ failedLookup' = dgst
    /\ visited' = visited \cup {dgst}
    /\ UNCHANGED markSet

\* The callback: no tag points at dgst, and listing all tags fails.
markAllFailed(dgst) ==
    /\ removeUntagged
    /\ TagsLookup(repo, dgst) = {}
    /\ markFailed("failed to retrieve tags " \o DriverError)
    /\ visited' = visited \cup {dgst}
    /\ UNCHANGED <<markSet, failedLookup>>

\* Mutant of markUntagged: the untagged manifest is removed as soon as the
\* enumeration meets it, instead of being kept for the sweep.
markUntaggedRemovedAtOnce(dgst) ==
    /\ removeUntagged
    /\ TagsLookup(repo, dgst) = {}
    /\ RemoveManifest(repo, dgst, TagsAll(repo))
    /\ manifestArr' = Append(manifestArr, ManifestDel(repo, dgst, TagsAll(repo)))
    /\ visited' = visited \cup {dgst}
    /\ UNCHANGED <<config, prior, resolved,
                   pc, repo, markSet, idx, blobVisited, err,
                   failedLookup, response, history>>

\* Mutant of markUntagged: the entry carries the tags found for the digest
\* (none) instead of all the tags of the repository.
markUntaggedWithOwnTags(dgst) ==
    /\ removeUntagged
    /\ TagsLookup(repo, dgst) = {}
    /\ manifestArr' = Append(manifestArr,
                             ManifestDel(repo, dgst, TagsLookup(repo, dgst)))
    /\ visited' = visited \cup {dgst}
    /\ UNCHANGED <<config, prior, resolved,
                   stored, pc, repo, markSet, idx, blobVisited, err,
                   failedLookup, response, history>>

\* The callback: no tag points at dgst; it is appended to manifestArr with all
\* the tags of the repository and its references are not marked.
markUntagged(dgst) ==
    /\ removeUntagged
    /\ TagsLookup(repo, dgst) = {}
    /\ manifestArr' = Append(manifestArr, ManifestDel(repo, dgst, TagsAll(repo)))
    /\ visited' = visited \cup {dgst}
    /\ UNCHANGED <<config, prior, resolved,
                   stored, pc, repo, markSet, idx, blobVisited, err,
                   failedLookup, response, history>>

\* Mutant of Marked: the manifest is marked and its references are not.
MarkedWithoutReferences(dgst) == {dgst}

\* Mutant of Marked: the references are marked and the manifest is not.
MarkedReferencesOnly(dgst) == References(dgst)

\* The digests the callback marks for a tagged manifest: the manifest and the
\* descriptors manifest.References() returns.
Marked(dgst) == {dgst} \cup References(dgst)

\* Mutant of markTagged: markSet is replaced by what this manifest marks.
markTaggedOverwrites(dgst) ==
    /\ ~(removeUntagged /\ TagsLookup(repo, dgst) = {})
    /\ markSet' = Marked(dgst)
    /\ visited' = visited \cup {dgst}
    /\ UNCHANGED <<config, prior, resolved, stored, pc, repo, manifestArr, idx,
                   blobVisited, err, failedLookup, response, history>>

\* The callback: dgst is tagged (or untagged manifests are kept).
markTagged(dgst) ==
    /\ ~(removeUntagged /\ TagsLookup(repo, dgst) = {})
    /\ markSet' = markSet \cup Marked(dgst)
    /\ visited' = visited \cup {dgst}
    /\ UNCHANGED <<config, prior, resolved,
                   stored, pc, repo, manifestArr, idx, blobVisited, err,
                   failedLookup, response, history>>

\* The callback: dgst is tagged and marked, and fetching the manifest fails.
markGetFailed(dgst) ==
    /\ ~(removeUntagged /\ TagsLookup(repo, dgst) = {})
    /\ markSet' = markSet \cup {dgst}
    /\ visited' = visited \cup {dgst}
    /\ markFailed("failed to retrieve manifest for digest " \o dgst \o ": " \o DriverError)
    /\ UNCHANGED failedLookup

markCallback(dgst) ==
    \/ markLookupFailed(dgst)
    \/ markAllFailed(dgst)
    \/ markUntagged(dgst)
    \/ markTagged(dgst)
    \/ markGetFailed(dgst)

\* The enumeration has passed every manifest: markAllManifests returns nil and
\* runGCCycle builds the vacuum.
markDone ==
    /\ pc = "mark"
    /\ ToEnumerate = {}
    /\ pc' = "sweepManifests"
    /\ idx' = 1
    /\ UNCHANGED <<config, prior, resolved,
                   stored, repo, markSet, manifestArr, visited,
                   blobVisited, err, failedLookup, response, history>>

markAllManifests ==
    \/ markNotEnumerator
    \/ markEnumerateFailed
    \/ (pc = "mark" /\ \E dgst \in ToEnumerate : markCallback(dgst))
    \/ markDone

\* ------------------------------------------------------- sweep of manifests
\* Mutant of sweepManifestRemoved: the loop does not move on to the next entry.
sweepManifestRemovedAgain ==
    /\ pc = "sweepManifests"
    /\ idx <= Len(manifestArr)
    /\ LET obj == manifestArr[idx]
       IN RemoveManifest(obj.Name, obj.Digest, obj.Tags)
    /\ idx' = idx
    /\ UNCHANGED <<config, prior, resolved, pc, repo, markSet, manifestArr,
                   visited, blobVisited, err, failedLookup, response, history>>

\* The loop over manifestArr: the entry at idx is removed.
sweepManifestRemoved ==
    /\ pc = "sweepManifests"
    /\ idx <= Len(manifestArr)
    /\ LET obj == manifestArr[idx]
       IN RemoveManifest(obj.Name, obj.Digest, obj.Tags)
    /\ idx' = idx + 1
    /\ UNCHANGED <<config, prior, resolved,
                   pc, repo, markSet, manifestArr, visited, blobVisited,
                   err, failedLookup, response, history>>

\* Mutant of sweepManifestFailed: the loop keeps the first error and goes on
\* removing the entries after it before runGCCycle returns the error.
sweepManifestFailedSweepsRest ==
    /\ pc = "sweepManifests"
    /\ idx <= Len(manifestArr)
    /\ manifestLinks' = [manifestLinks EXCEPT ![repo] =
          @ \ {manifestArr[i].Digest : i \in (idx + 1)..Len(manifestArr)}]
    /\ Return("failed to delete manifest " \o manifestArr[idx].Digest \o ": "
              \o DriverError)
    /\ UNCHANGED <<config, prior, resolved,
                   layerLinks, repoBlobs, globalBlobs, tags, tagIndex,
                   repo, markSet, manifestArr, visited, idx, blobVisited,
                   failedLookup, history>>

\* The loop over manifestArr: removing the entry at idx fails, and runGCCycle
\* returns the error.
sweepManifestFailed ==
    /\ pc = "sweepManifests"
    /\ idx <= Len(manifestArr)
    /\ LET obj == manifestArr[idx]
       IN RemoveManifestFails(obj.Name, obj.Digest, obj.Tags)
    /\ Return("failed to delete manifest " \o manifestArr[idx].Digest \o ": "
              \o DriverError)
    /\ UNCHANGED <<config, prior, resolved,
                   repo, markSet, manifestArr, visited, idx, blobVisited,
                   failedLookup, history>>

\* The loop is over: the blobs are swept only when the repository blob
\* enumerator is there and scoped; else runGCCycle returns nil.
sweepManifestsDone ==
    /\ pc = "sweepManifests"
    /\ idx > Len(manifestArr)
    /\ IF IsScopped
       THEN /\ pc' = "sweepBlobs"
            /\ UNCHANGED <<err, response>>
       ELSE Return(Nil)
    /\ UNCHANGED <<config, prior, resolved,
                   stored, repo, markSet, manifestArr, visited, idx,
                   blobVisited, failedLookup, history>>

\* --------------------------------------------------------- sweep of blobs
\* The blob enumeration hands the callback a blob of the repository's scope
\* it has not passed yet, in any order.
BlobsToEnumerate == repoBlobs[repo] \ blobVisited

\* Mutant of sweepBlobUnmarked: the blob is removed from every repository's
\* scope, as a removal from a shared store would.
sweepBlobUnmarkedEverywhere(dgst) ==
    /\ dgst \notin markSet
    /\ repoBlobs' = [r \in Repos |-> repoBlobs[r] \ {dgst}]
    /\ UNCHANGED <<manifestLinks, layerLinks, globalBlobs, tags, tagIndex, dropped>>

\* The callback on a digest that is not in markSet: the blob is removed from
\* this repository, and what RemoveRepositoryBlob returns is dropped.
sweepBlobUnmarked(dgst) ==
    /\ dgst \notin markSet
    /\ \/ RemoveRepositoryBlob(repo, dgst) /\ UNCHANGED dropped
       \/ RemoveRepositoryBlobFails(repo, dgst)

\* The callback on a digest that is in markSet.
sweepBlobMarked(dgst) ==
    /\ dgst \in markSet
    /\ UNCHANGED <<stored, dropped>>

\* The callback always returns nil.
sweepBlobCallback(dgst) ==
    /\ pc = "sweepBlobs"
    /\ dgst \in BlobsToEnumerate
    /\ sweepBlobUnmarked(dgst) \/ sweepBlobMarked(dgst)
    /\ blobVisited' = blobVisited \cup {dgst}
    /\ UNCHANGED <<config, prior, resolved,
                   pc, repo, markSet, manifestArr, visited, idx, err,
                   failedLookup, response, cycleStart, wrote, runs, pushes>>

\* The blob enumeration itself fails.
sweepBlobsEnumerateFailed ==
    /\ pc = "sweepBlobs"
    /\ Return("failed to delete blobs " \o DriverError)
    /\ UNCHANGED <<config, prior, resolved,
                   stored, repo, markSet, manifestArr, visited, idx,
                   blobVisited, failedLookup, history>>

\* The blob enumeration has passed every blob: runGCCycle returns nil.
sweepBlobsDone ==
    /\ pc = "sweepBlobs"
    /\ BlobsToEnumerate = {}
    /\ Return(Nil)
    /\ UNCHANGED <<config, prior, resolved,
                   stored, repo, markSet, manifestArr, visited, idx,
                   blobVisited, failedLookup, history>>

runGCCycle ==
    \/ markAllManifests
    \/ sweepManifestRemoved
    \/ sweepManifestFailed
    \/ sweepManifestsDone
    \/ \E dgst \in Digests : sweepBlobCallback(dgst)
    \/ sweepBlobsEnumerateFailed
    \/ sweepBlobsDone

\* ------------------------------------------------------------ client writes
\* A push while a cycle is running: the blobs of manifest m are uploaded into
\* repository r, the manifest is stored and linked, and tag t is set to it.
\* (Init ranges over what pushes leave behind while no cycle is running.)
Push(r, m, t) ==
    /\ ~readOnly
    /\ pc \in {"mark", "sweepManifests", "sweepBlobs"}
    /\ pushes < MaxPushes
    /\ References(m) \cap ManifestDigests \subseteq manifestLinks[r]
    /\ pushes' = pushes + 1
    /\ wrote' = TRUE
    /\ repoBlobs' = IF repositoryBlobStoreEnabled
                    THEN [repoBlobs EXCEPT ![r] = @ \cup {m} \cup References(m)]
                    ELSE repoBlobs
    /\ globalBlobs' = IF repositoryBlobStoreEnabled THEN globalBlobs
                      ELSE globalBlobs \cup {m} \cup References(m)
    /\ layerLinks' = [layerLinks EXCEPT ![r] = @ \cup (References(m) \cap BlobDigests)]
    /\ manifestLinks' = [manifestLinks EXCEPT ![r] = @ \cup {m}]
    /\ tags' = [tags EXCEPT ![r][t] = m]
    /\ tagIndex' = [tagIndex EXCEPT ![r][t] = @ \cup {m}]
    /\ UNCHANGED <<config, prior, resolved,
                   local, response, cycleStart, dropped, runs>>

\* ------------------------------------------------------------ specifications
\* The registry with nothing writing to it but the housekeeping endpoint.
Next ==
    \/ \E r \in Repos : housekeepingDispatcher(r)
    \/ runGCCycle

Spec == Init /\ [][Next]_vars

\* The registry with clients pushing into the repository under collection
\* while the cycle of one housekeeping request runs.
NextPush ==
    \/ \E r \in Repos : runs = 0 /\ housekeepingDispatcher(r)
    \/ runGCCycle
    \/ \E m \in ManifestDigests, t \in TagNames : Push(repo, m, t)

SpecPush == Init /\ [][NextPush]_vars

\* The steps of a cycle in which every call returns without error. The
\* handler runs them one after the other in the goroutine of the request, so
\* a cycle that can take such a step eventually takes one, or fails.
Progress ==
    \/ pc = "mark" /\ \E dgst \in ToEnumerate :
          markUntagged(dgst) \/ markTagged(dgst)
    \/ markDone
    \/ sweepManifestRemoved
    \/ sweepManifestsDone
    \/ \E dgst \in Digests : sweepBlobCallback(dgst)
    \/ sweepBlobsDone

\* One housekeeping request on any of the stored states of Init.
NextOnce ==
    \/ \E r \in Repos : runs = 0 /\ housekeepingDispatcher(r)
    \/ runGCCycle

SpecFair == Init /\ [][NextOnce]_vars /\ WF_vars(Progress)

\* ------------------------------------------------------- link resolution
\* The repositories of a registry that was upgraded from a version that
\* linked manifests under the blob link path: r1 holds any mix of revision
\* links and blob links, and the bytes of everything it links.
LegacyDigests == {"mA", "mB", "b1", "b2"}

InitResolve ==
    /\ repositoryBlobStoreEnabled \in BOOLEAN
    /\ readOnly \in BOOLEAN
    /\ \E ml \in SUBSET ManifestDigests, ll \in SUBSET LegacyDigests :
          /\ manifestLinks = [r \in Repos |-> IF r = "r1" THEN ml ELSE {"mA"}]
          /\ layerLinks = [r \in Repos |-> IF r = "r1" THEN ll ELSE {"b1", "b2"}]
          /\ repoBlobs = [r \in Repos |->
                IF repositoryBlobStoreEnabled
                THEN manifestLinks[r] \cup layerLinks[r] ELSE {}]
          /\ globalBlobs =
                IF repositoryBlobStoreEnabled THEN {}
                ELSE UNION {manifestLinks[r] \cup layerLinks[r] : r \in Repos}
    /\ tags = [r \in Repos |-> [t \in TagNames |-> None]]
    /\ tagIndex = [r \in Repos |-> [t \in TagNames |-> {}]]
    /\ InitHandler

\* repo.Manifests(ctx) resolving a digest through its blob store.
StatManifest(r, d) ==
    /\ resolved' = [service |-> "Manifests", repo |-> r, digest |-> d,
                    path |-> Stat(manifestLinkPathFns, r, d)]
    /\ UNCHANGED <<config, stored, local, response, history, prior>>

\* repo.Blobs(ctx) resolving a digest.
StatBlob(r, d) ==
    /\ resolved' = [service |-> "Blobs", repo |-> r, digest |-> d,
                    path |-> Stat(blobsLinkPathFns, r, d)]
    /\ UNCHANGED <<config, stored, local, response, history, prior>>

NextResolve ==
    \/ \E r \in Repos, d \in Digests : StatManifest(r, d)
    \/ \E r \in Repos, d \in Digests : StatBlob(r, d)

SpecResolve == InitResolve /\ [][NextResolve]_vars

\* ------------------------------------------------------------ properties
\* The state a cycle started from.
TaggedAtStart(r) == {cycleStart.tags[r][t] : t \in TagNames} \ {None}

StoreAtStart(r) ==
    IF repositoryBlobStoreEnabled THEN cycleStart.repoBlobs[r]
    ELSE cycleStart.globalBlobs

PresentAtStart(r, d) ==
    /\ d \in StoreAtStart(r)
    /\ IF d \in ManifestDigests THEN d \in cycleStart.manifestLinks[r]
       ELSE d \in cycleStart.layerLinks[r]

\* Tagged manifests with everything they name, directly or through nested
\* manifests.
ReachableFrom(ms) == ms \cup UNION {TransitiveReferences(m) : m \in ms}

PendingDigests == {manifestArr[i].Digest : i \in 1..Len(manifestArr)}

InCycle == pc \in {"mark", "sweepManifests", "sweepBlobs"}

\* C1: when a cycle has ended, every digest that a manifest tagged at the
\* start names directly or through nested manifests, and that was present at
\* the start, is still stored and linked in the repository.
C1_ReachabilitySoundness ==
    pc = "done" =>
        \A m \in TaggedAtStart(repo) : \A d \in {m} \cup TransitiveReferences(m) :
            PresentAtStart(repo, d) => Present(repo, d)

\* C2: when a cycle has ended without error, every blob stored at the start
\* and not reachable from a tagged manifest is gone from the store in use:
\* the repository's scope, or the global store.
C2_ReachabilityCompleteness ==
    (pc = "done" /\ err = Nil) =>
        IF repositoryBlobStoreEnabled
        THEN \A b \in cycleStart.repoBlobs[repo] \ ReachableFrom(TaggedAtStart(repo)) :
                b \notin repoBlobs[repo]
        ELSE \A b \in cycleStart.globalBlobs
                        \ ReachableFrom(UNION {TaggedAtStart(r) : r \in Repos}) :
                b \notin globalBlobs

\* The scenario of C3: manifest mA tagged latest and naming b1 and b2, manifest
\* mB untagged and naming b2 and b3, all of it present.
ScenarioAtStart ==
    /\ cycleStart.manifestLinks[repo] = {"mA", "mB"}
    /\ cycleStart.tags[repo] = [t \in TagNames |-> IF t = "latest" THEN "mA" ELSE None]
    /\ \A d \in {"mA", "mB", "b1", "b2", "b3"} : PresentAtStart(repo, d)

\* C3: from the scenario, a cycle that ended without error has kept mA, b1
\* and b2 and has removed mB and b3.
C3_SharedBlobScenario ==
    (pc = "done" /\ err = Nil /\ ScenarioAtStart) =>
        /\ Present(repo, "mA") /\ Present(repo, "b1") /\ Present(repo, "b2")
        /\ ~Present(repo, "mB") /\ ~Present(repo, "b3")

\* C4: with repository blob storage, a cycle on one repository leaves the
\* blobs, links and tags of every other repository as they were.
C4_OtherRepositoriesUntouched ==
    (repositoryBlobStoreEnabled /\ (InCycle \/ pc = "done")) =>
        \A r \in Repos \ {repo} :
            /\ repoBlobs[r] = cycleStart.repoBlobs[r]
            /\ manifestLinks[r] = cycleStart.manifestLinks[r]
            /\ layerLinks[r] = cycleStart.layerLinks[r]
            /\ tags[r] = cycleStart.tags[r]
            /\ tagIndex[r] = cycleStart.tagIndex[r]

\* A cycle removed from its own repository a blob that another repository
\* also stores.
C4_Witness ==
    /\ repositoryBlobStoreEnabled
    /\ pc = "done"
    /\ \E r \in Repos \ {repo} : \E x \in BlobDigests :
          /\ x \in cycleStart.repoBlobs[repo]
          /\ x \in cycleStart.repoBlobs[r]
          /\ x \notin repoBlobs[repo]
          /\ x \in repoBlobs[r]

\* The errors runGCCycle returns for a failure of the mark phase.
MarkErrors ==
    {"failed to mark all manifests: " \o e : e \in
        {"unable to convert ManifestService into ManifestEnumerator",
         DriverError,
         "failed to retrieve tags " \o DriverError}
        \cup {"failed to retrieve tags for digest " \o d \o ": " \o DriverError :
                d \in ManifestDigests}
        \cup {"failed to retrieve manifest for digest " \o d \o ": " \o DriverError :
                d \in ManifestDigests}}

\* C5: a cycle that ended with a mark-phase error has deleted nothing: the
\* stored state is the one the cycle started from and no sweep has begun.
C5_MarkFailureDeletesNothing ==
    (pc = "done" /\ err \in MarkErrors) =>
        /\ Stored = cycleStart
        /\ idx = 1
        /\ blobVisited = {}

\* The mark phase failed after an untagged manifest had been scheduled.
C5_Witness ==
    /\ pc = "done"
    /\ err \in MarkErrors
    /\ manifestArr # << >>

\* C6: a manifest whose tag lookup failed is not in manifestArr, is still
\* linked, and the cycle has ended with an error reported.
C6_TagLookupFailClosed ==
    failedLookup # None =>
        /\ failedLookup \notin PendingDigests
        /\ failedLookup \in manifestLinks[repo]
        /\ pc = "done"
        /\ err # Nil
        /\ status = StatusInternalServerError

\* The lookup failed for a manifest that no tag points at, after another
\* manifest had been scheduled.
C6_Witness ==
    /\ failedLookup # None
    /\ TagsLookup(repo, failedLookup) = {}
    /\ manifestArr # << >>

DeleteManifestErrors ==
    {"failed to delete manifest " \o d \o ": " \o DriverError : d \in ManifestDigests}

\* C7: a cycle that ended with a manifest deletion error stopped at the entry
\* idx of manifestArr: the entries after it are still linked, the entries
\* before it are still unlinked, the blob sweep has passed no blob and has
\* removed none, and the error is reported.
C7_ManifestSweepStopsAtFirstFailure ==
    (pc = "done" /\ err \in DeleteManifestErrors) =>
        /\ idx \in 1..Len(manifestArr)
        /\ err = "failed to delete manifest " \o manifestArr[idx].Digest \o ": "
                    \o DriverError
        /\ \A i \in (idx + 1)..Len(manifestArr) :
              manifestArr[i].Digest \in manifestLinks[repo]
        /\ \A i \in 1..(idx - 1) :
              manifestArr[i].Digest \notin manifestLinks[repo]
        /\ blobVisited = {}
        /\ scopedBlobStore(repo) \cap BlobDigests = StoreAtStart(repo) \cap BlobDigests
        /\ status = StatusInternalServerError

\* The second of three scheduled deletions failed.
C7_Witness ==
    /\ pc = "done"
    /\ err \in DeleteManifestErrors
    /\ idx = 2
    /\ Len(manifestArr) = 3

\* C8: a cycle in which a blob deletion failed does not end with success.
C8_BlobDeletionFailureIsFatal ==
    (pc = "done" /\ dropped > 0) =>
        /\ err # Nil
        /\ status = StatusInternalServerError

\* C9: no response is written while the cycle runs; once it has ended, the
\* response is success with an empty body exactly when runGCCycle returned no
\* error, and else a server error whose body is the error text.
C9_RecycleReportsOneOutcome ==
    /\ InCycle => status = 0
    /\ pc = "done" =>
          /\ (status = StatusOK /\ body = "") <=> err = Nil
          /\ err # Nil => (status = StatusInternalServerError /\ body = err)

\* A cycle that had already deleted content ended with an error.
C9_Witness ==
    /\ pc = "done"
    /\ err # Nil
    /\ Stored # cycleStart
    /\ status = StatusInternalServerError

\* C10: on a read-only registry no cycle ever starts and the stored state
\* never changes; a request gets no handler.
C10_ReadOnlyNeverCollects ==
    readOnly =>
        /\ pc = "idle"
        /\ Stored = cycleStart
        /\ markSet = {}
        /\ manifestArr = << >>
        /\ status \in {0, StatusMethodNotAllowed}

\* A read-only registry holding an untagged manifest has refused a request.
C10_Witness ==
    /\ readOnly
    /\ runs > 0
    /\ status = StatusMethodNotAllowed
    /\ \E d \in manifestLinks[repo] : TagsLookup(repo, d) = {}

\* A manifest that a tag of repository r points at names blob b, and b is not
\* in the store of r.
TaggedWithoutBlob(r, m, b) ==
    /\ m \in manifestLinks[r]
    /\ TagsLookup(r, m) # {}
    /\ b \in References(m) \cap BlobDigests
    /\ b \notin scopedBlobStore(r)

\* C11: the cycle is not safe against pushes. A tagged manifest is left without
\* a blob it names only when a push ran during the cycle (the theorem), and
\* the state is reached by a push that lands after the mark phase is over (the
\* witness).
C11_OnlyAPushBreaksATaggedManifest ==
    \A r \in Repos : \A m \in ManifestDigests : \A b \in BlobDigests :
        TaggedWithoutBlob(r, m, b) => pushes > 0

\* Manifest m was pushed and tagged after the mark enumeration had ended (it
\* is linked and the enumeration never passed it), the push uploaded b, and
\* the blob sweep has since removed b.
C11_Witness ==
    /\ pc \in {"sweepBlobs", "done"}
    /\ \E m \in ManifestDigests : \E b \in BlobDigests :
          /\ TaggedWithoutBlob(repo, m, b)
          /\ m \notin visited
          /\ m \notin cycleStart.manifestLinks[repo]
          /\ b \in blobVisited

\* The entries of manifestArr for digest d.
EntriesOf(d) == {i \in 1..Len(manifestArr) : manifestArr[i].Digest = d}

\* The mark phase has not failed.
MarkNotFailed == (InCycle \/ pc = "done") /\ err \notin MarkErrors

\* C12: every manifest the enumeration has passed and that no tag points at
\* has exactly one entry in manifestArr, made of the repository name, the
\* digest and all the tag names of the repository; a tagged manifest has none;
\* and once the sweep has removed an entry, the digest is gone from the index
\* of every tag of that list and its link is gone.
C12_UntaggedScheduledWithAllTags ==
    MarkNotFailed =>
        /\ \A d \in visited :
              IF TagsLookup(repo, d) = {}
              THEN /\ Cardinality(EntriesOf(d)) = 1
                   /\ \A i \in EntriesOf(d) :
                         manifestArr[i] = ManifestDel(repo, d, TagsAll(repo))
              ELSE EntriesOf(d) = {}
        /\ PendingDigests \subseteq visited
        /\ \A i \in 1..Len(manifestArr) : i < idx =>
              /\ manifestArr[i].Digest \notin manifestLinks[repo]
              /\ \A t \in TagsAll(repo) :
                    manifestArr[i].Digest \notin tagIndex[repo][t]

\* The sweep has removed an untagged manifest that was in the history of the
\* two tags of the repository, both pointing elsewhere.
C12_Witness ==
    /\ pc = "done"
    /\ err = Nil
    /\ idx > 1
    /\ manifestArr[1].Tags = TagNames
    /\ \A t \in TagNames : manifestArr[1].Digest \in cycleStart.tagIndex[repo][t]

\* C13: a manifest digest resolves through the revision link when the
\* repository holds one, else through the blob link when it holds that one,
\* and is unknown only when it holds neither; a digest resolved by the blob
\* service resolves through the blob link alone.
C13_ManifestLinkFallback ==
    resolved # NotResolved =>
        LET r == resolved.repo
            d == resolved.digest
        IN IF resolved.service = "Manifests"
           THEN resolved.path =
                  IF d \in manifestLinks[r] THEN "manifestRevisionLinkPath"
                  ELSE IF d \in layerLinks[r] THEN "blobLinkPath"
                  ELSE ErrBlobUnknown
           ELSE resolved.path =
                  IF d \in layerLinks[r] THEN "blobLinkPath" ELSE ErrBlobUnknown

\* A manifest that the repository links under the blob link path only has
\* been resolved as a manifest.
C13_Witness ==
    /\ resolved.service = "Manifests"
    /\ resolved.digest \in ManifestDigests
    /\ resolved.digest \notin manifestLinks[resolved.repo]
    /\ resolved.digest \in layerLinks[resolved.repo]
    /\ resolved.path = "blobLinkPath"

\* The mark phase of the running or ended cycle returned without error.
MarkSucceeded ==
    \/ pc \in {"sweepManifests", "sweepBlobs"}
    \/ pc = "done" /\ err \notin MarkErrors

\* The manifests the mark enumeration of the cycle passes, and the tagged ones.
Enumerated == cycleStart.manifestLinks[repo]

TaggedEnumerated == {m \in Enumerated : TagsLookup(repo, m) # {}}

\* C14: a step that deletes anything is a step of the sweep, taken after the
\* mark enumeration has passed every manifest of the repository and returned
\* no error; and once something has been deleted, no step of the cycle changes
\* markSet or manifestArr.
C14_SweepStrictlyAfterMark ==
    [][/\ Stored' # Stored =>
            /\ pc \in {"sweepManifests", "sweepBlobs"}
            /\ Enumerated \subseteq visited
            /\ err = Nil
       /\ (Stored # cycleStart /\ pc' # "mark") =>
            /\ markSet' = markSet
            /\ manifestArr' = manifestArr]_vars

\* The blob sweep is under way after the manifest sweep removed a manifest,
\* with a mark set and a pending list built before.
C14_Witness ==
    /\ pc = "sweepBlobs"
    /\ blobVisited # {}
    /\ manifestArr # << >>
    /\ markSet # {}
    /\ Stored.manifestLinks # cycleStart.manifestLinks
    /\ Stored.repoBlobs # cycleStart.repoBlobs

\* C15: after a mark phase that succeeded, no digest is both in markSet and in
\* manifestArr, and the manifests the sweep has removed are not in markSet.
C15_ReferencedManifestNotPending ==
    MarkSucceeded =>
        /\ PendingDigests \cap markSet = {}
        /\ \A i \in 1..Len(manifestArr) :
              (i < idx /\ manifestArr[i].Digest \notin manifestLinks[repo])
                  => manifestArr[i].Digest \notin markSet

\* The digests of the tagged manifests with the digests they name directly.
TaggedWithDirectReferences ==
    UNION {{m} \cup References(m) : m \in TaggedEnumerated}

\* What is true of the output of a successful mark phase whatever the
\* manifests reference: the pending list holds the untagged manifests, and
\* markSet the tagged ones with their direct references.
MarkOutput ==
    MarkSucceeded =>
        /\ PendingDigests = Enumerated \ TaggedEnumerated
        /\ markSet = TaggedWithDirectReferences

\* C16: after a mark phase that succeeded, every enumerated manifest is in
\* exactly one of manifestArr and markSet, in manifestArr when no tag points
\* at it and in markSet when one does, and markSet is the digests of the
\* tagged manifests together with the digests they directly reference.
C16_MarkOutputInOnePlace ==
    MarkSucceeded =>
        /\ \A m \in Enumerated : (m \in PendingDigests) # (m \in markSet)
        /\ PendingDigests = Enumerated \ TaggedEnumerated
        /\ markSet = TaggedWithDirectReferences

\* The stored state a cycle that deletes everything it schedules leaves, as a
\* function of the state it started from: the untagged manifests lose their
\* link, their entries in the index of every tag of the repository and their
\* bytes where no repository of the store still links them, and with
\* repository blob storage the repository keeps only what is in markSet.
ExpectedFinal ==
    LET pending == Enumerated \ TaggedEnumerated
        allTags == {t \in TagNames : cycleStart.tags[repo][t] # None}
        linkedElsewhere ==
            UNION {cycleStart.manifestLinks[r] : r \in Repos \ {repo}}
    IN [manifestLinks |->
            [cycleStart.manifestLinks EXCEPT ![repo] = @ \ pending],
        layerLinks |-> cycleStart.layerLinks,
        repoBlobs |->
            IF repositoryBlobStoreEnabled
            THEN [cycleStart.repoBlobs EXCEPT
                     ![repo] = (@ \ pending) \cap TaggedWithDirectReferences]
            ELSE cycleStart.repoBlobs,
        globalBlobs |->
            IF repositoryBlobStoreEnabled THEN cycleStart.globalBlobs
            ELSE cycleStart.globalBlobs \ (pending \ linkedElsewhere),
        tags |-> cycleStart.tags,
        tagIndex |->
            [cycleStart.tagIndex EXCEPT ![repo] =
                [t \in TagNames |->
                    IF t \in allTags THEN @[t] \ pending ELSE @[t]]]]

\* C17: whatever the order of the enumerations, a mark phase that succeeded
\* has built the markSet and the set of pending manifests that the state at
\* the start of the cycle determines, and a cycle that returned no error, none
\* of whose deletions failed, has left the stored state that the state at the
\* start determines.
C17_EnumerationOrderIrrelevant ==
    /\ MarkSucceeded =>
          /\ markSet = TaggedWithDirectReferences
          /\ PendingDigests = Enumerated \ TaggedEnumerated
    /\ (pc = "done" /\ err = Nil /\ dropped = 0) => Stored = ExpectedFinal

\* A cycle has ended without error after enumerating mL before mB, both
\* untagged, and the tagged mA, and after the blob sweep removed a blob.
C17_Witness ==
    /\ pc = "done"
    /\ err = Nil
    /\ dropped = 0
    /\ Len(manifestArr) = 2
    /\ manifestArr[1].Digest = "mL"
    /\ manifestArr[2].Digest = "mB"
    /\ "mA" \in markSet
    /\ Stored.repoBlobs[repo] \cap BlobDigests
          # cycleStart.repoBlobs[repo] \cap BlobDigests

\* The same cycle with mB enumerated before mL.
C17_OtherOrder ==
    /\ pc = "done"
    /\ err = Nil
    /\ dropped = 0
    /\ Len(manifestArr) = 2
    /\ manifestArr[1].Digest = "mB"
    /\ manifestArr[2].Digest = "mL"
    /\ "mA" \in markSet
    /\ Stored.repoBlobs[repo] \cap BlobDigests
          # cycleStart.repoBlobs[repo] \cap BlobDigests

\* C18: during and after a cycle every tag of every repository points at the
\* digest it pointed at when the cycle started, and every manifest that was
\* tagged and present at the start is still stored and linked, whether the
\* cycle runs, has returned no error or has returned one.
C18_TagsAndTaggedManifestsKept ==
    (InCycle \/ pc = "done") =>
        /\ tags = cycleStart.tags
        /\ \A r \in Repos : \A m \in TaggedAtStart(r) :
              PresentAtStart(r, m) => Present(r, m)

\* A cycle on a repository with a tagged manifest has ended, with or without
\* error, after removing a manifest and a blob.
C18_Witness ==
    /\ pc = "done"
    /\ TaggedAtStart(repo) # {}
    /\ \A m \in TaggedAtStart(repo) : PresentAtStart(repo, m)
    /\ Stored.manifestLinks # cycleStart.manifestLinks
    /\ Stored.repoBlobs[repo] \cap BlobDigests
          # cycleStart.repoBlobs[repo] \cap BlobDigests

\* The running or ended cycle follows a cycle on the same repository that
\* returned no error.
AfterSuccessfulRun ==
    /\ InCycle \/ pc = "done"
    /\ prior.repo = repo
    /\ prior.err = Nil

\* C19: a cycle that follows a cycle that returned no error schedules no
\* manifest for deletion and leaves the stored state as it found it.
C19_SecondRunChangesNothing ==
    AfterSuccessfulRun =>
        /\ manifestArr = << >>
        /\ Stored = cycleStart

\* The same, for a first cycle none of whose blob deletions failed.
C19_AfterRunWithoutDroppedFailure ==
    (AfterSuccessfulRun /\ prior.dropped = 0) =>
        /\ manifestArr = << >>
        /\ Stored = cycleStart

\* What a cycle still has to pass: the phases ahead, and in the running phase
\* the manifests not enumerated, the entries of manifestArr not reached or the
\* blobs not enumerated.
PhaseWork == Cardinality(Digests) + 1

Remaining ==
    CASE pc = "mark" -> 3 * PhaseWork + Cardinality(ToEnumerate)
      [] pc = "sweepManifests" -> 2 * PhaseWork + (Len(manifestArr) + 1 - idx)
      [] pc = "sweepBlobs" -> PhaseWork + Cardinality(BlobsToEnumerate)
      [] OTHER -> 0

\* C20: every step of a cycle leaves strictly less to pass than before it, so
\* no manifest, pending entry or blob is passed twice, and a cycle that has
\* started eventually returns, with no error or with the first one.
C20_EveryRunTerminates ==
    /\ [][InCycle => Remaining' < Remaining]_vars
    /\ InCycle ~> (pc = "done")

\* A cycle that passed two manifests, two pending entries and blobs has
\* returned without error.
C20_Witness ==
    /\ pc = "done"
    /\ err = Nil
    /\ Cardinality(visited) >= 2
    /\ Len(manifestArr) = 2
    /\ idx = 3
    /\ Cardinality(blobVisited) >= 2

====
